---- MODULE Spec2Model ----
(***************************************************************************)
(* Model of analytics_interview.py: the batch pipeline that ingests        *)
(* gzip-compressed JSON-lines bid-win logs into the individualWins         *)
(* collection (parse_and_insert), groups them by a five-field key and      *)
(* upserts the grouped totals into geoAggregation (aggregate_and_upsert),  *)
(* and dumps geoAggregation to a JSON file (dump_to_json).                 *)
(*                                                                         *)
(* A collection is a bag of documents.  Prices are natural numbers and the *)
(* store's $sum is exact arithmetic.                                       *)
(***************************************************************************)
EXTENDS Integers, Sequences, FiniteSets, Bags, TLC

\* ------------------------------------------------------------------ bounds
\* Lines read from input units over a whole behaviour.
MaxTotal == 3
\* Input units (files) the glob returns in one run of the program.
MaxUnits == 2
\* batch_size ranges over 1..MaxBatch.
MaxBatch == 2
\* Runs of the program (process starts) in one behaviour.
MaxRuns == 2
\* Documents in the raw store at the start of SpecAgg.
MaxRawDocs == 3

\* ------------------------------------------------------------- input lines
\* dict.get(key, default) on a JSON object: a missing key is Absent.
Absent == "<absent>"

\* A string of the input as a sequence of tokens: digits, the unit suffix,
\* and a character that is neither.
Suffix == "USD/1M"

\* The nested bid request document (already parsed), flattened: country is
\* device.geo.country and criteria is device.ext.geo_criteria_id, Absent when
\* any object on the path is missing.
NestedDoc(ua, url, country, criteria, exchange, ts) ==
    [userAgent |-> ua, url |-> url, country |-> country, criteria |-> criteria,
     exchange |-> exchange, timestamp |-> ts]

\* A timestamp field: absent, the empty string, a string that does not match
\* the format, or a well-formed instant with its whole seconds since the epoch
\* and its fractional microseconds.
NoTimestamp == [kind |-> "absent", sec |-> 0, usec |-> 0]
IsoTimestamp(sec, usec) == [kind |-> "iso", sec |-> sec, usec |-> usec]
BadTimestamp == [kind |-> "bad", sec |-> 0, usec |-> 0]

EmptyNested == NestedDoc(Absent, Absent, Absent, Absent, Absent, NoTimestamp)

\* The bidRequestString field: absent, the empty string, text that is not
\* JSON, or the text of a JSON object.
BrsAbsent == [kind |-> "absent", doc |-> EmptyNested]
BrsEmpty == [kind |-> "empty", doc |-> EmptyNested]
BrsBad == [kind |-> "bad", doc |-> EmptyNested]
BrsJson(doc) == [kind |-> "json", doc |-> doc]

\* The winPrice field: absent, or a string.
NoPrice == [has |-> FALSE, s |-> <<>>]
PriceStr(s) == [has |-> TRUE, s |-> s]

\* One line of an input unit: text that is not JSON, or a JSON object.
Line(auction, main, creative, sub, brs, price) ==
    [json |-> TRUE, auctionId |-> auction, biddingMainAccount |-> main,
     bidResponseCreativeName |-> creative, biddingSubAccount |-> sub,
     bidRequestString |-> brs, winPrice |-> price]

LineBadJson ==
    [json |-> FALSE, auctionId |-> Absent, biddingMainAccount |-> Absent,
     bidResponseCreativeName |-> Absent, biddingSubAccount |-> Absent,
     bidRequestString |-> BrsAbsent, winPrice |-> NoPrice]

\* ------------------------------------------------------------ normalization
Digits == {"0", "1", "2", "3", "4", "5", "6", "7", "8", "9"}

DigitVal(c) ==
    CASE c = "0" -> 0 [] c = "1" -> 1 [] c = "2" -> 2 [] c = "3" -> 3
      [] c = "4" -> 4 [] c = "5" -> 5 [] c = "6" -> 6 [] c = "7" -> 7
      [] c = "8" -> 8 [] OTHER -> 9

\* str.replace("USD/1M", ""): every occurrence of the suffix is removed.
RECURSIVE StripSuffix(_)
StripSuffix(s) ==
    IF s = <<>> THEN <<>>
    ELSE IF Head(s) = Suffix THEN StripSuffix(Tail(s))
         ELSE <<Head(s)>> \o StripSuffix(Tail(s))

\* float(s) of a string of digits: its decimal value.
RECURSIVE DecimalValue(_)
DecimalValue(s) ==
    IF s = <<>> THEN 0
    ELSE 10 * DecimalValue(SubSeq(s, 1, Len(s) - 1)) + DigitVal(s[Len(s)])

\* float(s) raises ValueError on the empty string and on any other character.
FloatOk(s) == s # <<>> /\ \A i \in 1..Len(s) : s[i] \in Digits

\* A lookup with no default.
Get_NoDefault(v, default) == v

\* data.get(key, default)
Get(v, default) == IF v = Absent THEN default ELSE v

\* A geo that never looks at geo_criteria_id.
ResolveGeo_NoFallback(nested) == Get(nested.country, "Others")

\* geo: device.geo.country, and device.ext.geo_criteria_id when that gave
\* "Others".
ResolveGeo(nested) ==
    LET geo == Get(nested.country, "Others")
    IN IF geo = "Others" THEN Get(nested.criteria, "Others") ELSE geo

\* time: 0 when the timestamp is missing or empty, else the whole seconds.
TimeFalsy(ts) == ts.kind \in {"absent", "empty"}
TimeOk(ts) == ts.kind # "bad"
ParseTime(ts) == IF TimeFalsy(ts) THEN 0 ELSE ts.sec

NoDocument ==
    [auctionId |-> Absent, campaignId |-> Absent, creativeId |-> Absent,
     adgroupId |-> Absent, userAgent |-> Absent, site |-> Absent,
     geo |-> Absent, exchange |-> Absent, price |-> 0, time |-> 0]

\* A nested text that falls back to "{}" whenever it is not a JSON object.
NestedText_EmptyOnBad(line) ==
    IF line.bidRequestString.kind # "json" THEN BrsJson(EmptyNested)
    ELSE line.bidRequestString

\* The text json.loads is given for bidRequestString: "{}" when absent.
NestedText(line) ==
    IF line.bidRequestString.kind = "absent" THEN BrsJson(EmptyNested)
    ELSE line.bidRequestString

\* The body of the try block for one line, up to the document: "ok" with the
\* document, "skip" when json.JSONDecodeError is raised, "raise" when
\* ValueError is raised (it is not caught).
Normalize(line) ==
    IF ~line.json THEN [status |-> "skip", doc |-> NoDocument]
    ELSE IF NestedText(line).kind # "json"
    THEN [status |-> "skip", doc |-> NoDocument]
    ELSE LET nested == NestedText(line).doc
             text == StripSuffix(IF line.winPrice.has THEN line.winPrice.s
                                 ELSE <<"0">>)
         IN IF ~FloatOk(text) \/ ~TimeOk(nested.timestamp)
            THEN [status |-> "raise", doc |-> NoDocument]
            ELSE [status |-> "ok",
                  doc |-> [auctionId |-> Get(line.auctionId, "NA"),
                           campaignId |-> Get(line.biddingMainAccount, "NA"),
                           creativeId |-> Get(line.bidResponseCreativeName, "NA"),
                           adgroupId |-> Get(line.biddingSubAccount, "NA"),
                           userAgent |-> Get(nested.userAgent, "Others"),
                           site |-> Get(nested.url, "Others"),
                           geo |-> ResolveGeo(nested),
                           exchange |-> Get(nested.exchange, "Others"),
                           price |-> DecimalValue(text),
                           time |-> ParseTime(nested.timestamp)]]

\* ------------------------------------------------------------------ stores
\* A group key that leaves out time.
GroupKey_NoTime(d) ==
    [campaignId |-> d.campaignId, creativeId |-> d.creativeId,
     adgroupId |-> d.adgroupId, geo |-> d.geo, time |-> 0]

\* group_key: the _id of the $group stage for a raw document.
GroupKey(d) ==
    [campaignId |-> d.campaignId, creativeId |-> d.creativeId,
     adgroupId |-> d.adgroupId, geo |-> d.geo, time |-> d.time]

\* filter_query: the fields an aggregate document is matched on.
FilterQuery(doc) ==
    [campaignId |-> doc.campaignId, creativeId |-> doc.creativeId,
     adgroupId |-> doc.adgroupId, geo |-> doc.geo, time |-> doc.time]

\* Whether a stored document matches a filter: each field of the filter equals
\* the document's.
Matches(d, filter) ==
    \A f \in DOMAIN filter : f \in DOMAIN d /\ d[f] = filter[f]

Min2(a, b) == IF a <= b THEN a ELSE b
Max2(a, b) == IF a >= b THEN a ELSE b

\* One document fed to the $group accumulators of its key: acc is the set of
\* groups so far, each with its _id and its four accumulators.
Accumulate(acc, d) ==
    LET k == GroupKey(d)
        same == {g \in acc : g._id = k}
    IN IF same = {}
       THEN acc \cup {[_id |-> k, totalPrice |-> d.price, minPrice |-> d.price,
                       maxPrice |-> d.price, totalCount |-> 1]}
       ELSE (acc \ same)
            \cup {[_id |-> k, totalPrice |-> g.totalPrice + d.price,
                   minPrice |-> Min2(g.minPrice, d.price),
                   maxPrice |-> Max2(g.maxPrice, d.price),
                   totalCount |-> g.totalCount + 1] : g \in same}

\* The $group stage over a collection: every document, one at a time.
RECURSIVE GroupStage(_, _)
GroupStage(coll, acc) ==
    IF coll = EmptyBag THEN acc
    ELSE LET d == CHOOSE x \in BagToSet(coll) : TRUE
         IN GroupStage(coll (-) SetToBag({d}), Accumulate(acc, d))

\* The $project stage: the key's fields beside the four totals, no _id.
Project(k, v) ==
    [campaignId |-> k.campaignId, creativeId |-> k.creativeId,
     adgroupId |-> k.adgroupId, geo |-> k.geo, time |-> k.time,
     totalPrice |-> v.totalPrice, minPrice |-> v.minPrice,
     maxPrice |-> v.maxPrice, totalCount |-> v.totalCount]

\* source_collection.aggregate(pipeline): the set of result documents.
AggregateResult(coll) == {Project(g._id, g) : g \in GroupStage(coll, {})}

\* UpdateOne(filter_query, update_query, upsert=True) for one result document.
UpsertOp(doc) ==
    [filter |-> FilterQuery(doc),
     set |-> [totalPrice |-> doc.totalPrice, minPrice |-> doc.minPrice,
              maxPrice |-> doc.maxPrice, totalCount |-> doc.totalCount]]

\* An upsert that inserts without looking for a match.
ApplyUpsert_AlwaysInsert(coll, op) == coll (+) SetToBag({op.filter @@ op.set})

\* An upsert that leaves a matching document as it is ($setOnInsert).
ApplyUpsert_KeepExisting(coll, op) ==
    IF \E d \in BagToSet(coll) : Matches(d, op.filter)
    THEN coll
    ELSE coll (+) SetToBag({op.filter @@ op.set})

\* An upsert that replaces the collection by the one document.
ApplyUpsert_DropOthers(coll, op) == SetToBag({op.filter @@ op.set})

\* The store applying one upsert: the four fields of one matching document
\* are set, and a document of the filter and the four fields is inserted when
\* none matches.
ApplyUpsert(coll, op) ==
    LET matching == {d \in BagToSet(coll) : Matches(d, op.filter)}
    IN IF matching = {}
       THEN coll (+) SetToBag({op.filter @@ op.set})
       ELSE LET d == CHOOSE x \in matching : TRUE
            IN (coll (-) SetToBag({d}))
               (+) SetToBag({[d EXCEPT !.totalPrice = op.set.totalPrice,
                                       !.minPrice = op.set.minPrice,
                                       !.maxPrice = op.set.maxPrice,
                                       !.totalCount = op.set.totalCount]})

\* An insert that leaves out the documents the collection already holds.
RECURSIVE InsertMany_Dedup(_, _)
InsertMany_Dedup(coll, docs) ==
    IF docs = <<>> THEN coll
    ELSE IF Head(docs) \in BagToSet(coll) THEN InsertMany_Dedup(coll, Tail(docs))
         ELSE InsertMany_Dedup(coll (+) SetToBag({Head(docs)}), Tail(docs))

\* collection.insert_many(documents)
RECURSIVE InsertMany(_, _)
InsertMany(coll, docs) ==
    IF docs = <<>> THEN coll
    ELSE InsertMany(coll (+) SetToBag({Head(docs)}), Tail(docs))

\* The sequences that list every element of a set once.
Orderings(S) ==
    {f \in [1..Cardinality(S) -> S] : \A i, j \in 1..Cardinality(S) : f[i] = f[j] => i = j}

\* ------------------------------------------------------------ parse_and_insert
\* A loop body whose except clause catches every exception.
LineStep_CatchAll(ps, line, size) ==
    LET r == Normalize(line)
        buffered == Append(ps.documents, r.doc)
    IN IF r.status # "ok" THEN ps
       ELSE IF Len(buffered) >= size
            THEN [ps EXCEPT !.documents = <<>>, !.inserted = Append(@, buffered)]
            ELSE [ps EXCEPT !.documents = buffered]

\* A loop body that flushes only past the batch size.
LineStep_FlushLate(ps, line, size) ==
    LET r == Normalize(line)
        buffered == Append(ps.documents, r.doc)
    IN CASE r.status = "skip" -> ps
         [] r.status = "raise" -> [ps EXCEPT !.raised = TRUE]
         [] OTHER ->
              IF Len(buffered) > size
              THEN [ps EXCEPT !.documents = <<>>, !.inserted = Append(@, buffered)]
              ELSE [ps EXCEPT !.documents = buffered]

\* A loop body without the except clause: the decode error leaves the function.
LineStep_NoExcept(ps, line, size) ==
    LET r == Normalize(line)
        buffered == Append(ps.documents, r.doc)
    IN IF r.status # "ok" THEN [ps EXCEPT !.raised = TRUE]
       ELSE IF Len(buffered) >= size
            THEN [ps EXCEPT !.documents = <<>>, !.inserted = Append(@, buffered)]
            ELSE [ps EXCEPT !.documents = buffered]

\* The loop body for one line.  ps is the function's state: the documents
\* buffer, the batches given to insert_many so far, and whether an exception
\* has left the function.
LineStep(ps, line, size) ==
    LET r == Normalize(line)
        buffered == Append(ps.documents, r.doc)
    IN CASE r.status = "skip" -> ps
         [] r.status = "raise" -> [ps EXCEPT !.raised = TRUE]
         [] OTHER ->
              IF Len(buffered) >= size
              THEN [ps EXCEPT !.documents = <<>>,
                              !.inserted = Append(@, buffered)]
              ELSE [ps EXCEPT !.documents = buffered]

\* A buffer shared by the calls: what the last unit left is still in it.
StartUnit_KeepBuffer(ps) == ps

\* documents = []: the buffer parse_and_insert starts with, whatever the last
\* call left.
StartUnit(ps) == [ps EXCEPT !.documents = <<>>]

ParseStart == [documents |-> <<>>, inserted |-> <<>>, raised |-> FALSE]

\* The loop over the lines of one unit: it stops at the first exception, and
\* the function returns when the lines are exhausted.
RECURSIVE ParseLines(_, _, _)
ParseLines(ps, lines, size) ==
    IF lines = <<>> \/ ps.raised THEN ps
    ELSE ParseLines(LineStep(ps, Head(lines), size), Tail(lines), size)

\* parse_and_insert on one unit.
ParseAndInsert(ps, lines, size) == ParseLines(StartUnit(ps), lines, size)

\* main's loop over file_paths: parse_and_insert on each unit in turn, until
\* an exception ends the program.
RECURSIVE IngestUnits(_, _, _)
IngestUnits(ps, us, size) ==
    IF us = <<>> \/ ps.raised THEN ps
    ELSE IngestUnits(ParseAndInsert(ps, Head(us), size), Tail(us), size)

\* The collection after the batches given to insert_many.
RECURSIVE InsertBatches(_, _)
InsertBatches(coll, batches) ==
    IF batches = <<>> THEN coll
    ELSE InsertBatches(InsertMany(coll, Head(batches)), Tail(batches))

\* bulk_write with no failure: every operation applied, in order.
RECURSIVE BulkWrite(_, _)
BulkWrite(coll, ops) ==
    IF ops = <<>> THEN coll
    ELSE BulkWrite(ApplyUpsert(coll, Head(ops)), Tail(ops))

\* aggregate_and_upsert with no failure, the store returning the result
\* documents in some order.
AggregateAndUpsert(source, target) ==
    LET ops == CHOOSE o \in Orderings({UpsertOp(doc) : doc \in AggregateResult(source)}) : TRUE
    IN BulkWrite(target, ops)

\* --------------------------------------------------------------------- state
VARIABLES
    pc,               \* where the program is: "glob" (the loop over file_paths),
                      \* "parse", "bulk_write", "dump", "close", "done", "crashed"
    batch_size,       \* parse_and_insert's batch_size
    documents,        \* parse_and_insert's buffer
    raw,              \* db.individualWins
    agg,              \* db.geoAggregation
    bulk_operations,  \* the operations of bulk_write not yet applied
    result_dump,      \* result_dump.json
    units,            \* history: the lines read from each unit of this run
    calls,            \* history: the batches given to insert_many for this unit
    nread,            \* history: lines read in this behaviour
    runs,             \* history: runs of the program so far
    cur,              \* history: this run's aggregate_and_upsert
    prev,             \* history: the previous run's aggregate_and_upsert
    error             \* the exception that ended the program, "none" if none

vars ==
    <<pc, batch_size, documents, raw, agg, bulk_operations, result_dump,
      units, calls, nread, runs, cur, prev, error>>

\* The lines the input units are made of.
SampleNested == NestedDoc("ua", "url", "US", Absent, "ex", IsoTimestamp(60, 0))
LineA == Line("a1", "c1", "cr1", "ag1", BrsJson(SampleNested), PriceStr(<<"1", Suffix>>))
LineB == Line("a2", "c1", "cr1", "ag1", BrsJson(SampleNested), PriceStr(<<"2", Suffix>>))
LineC == Line("a3", "c2", "cr1", "ag1", BrsJson(SampleNested), PriceStr(<<"1", Suffix>>))
LineBadPrice == Line("a4", "c1", "cr1", "ag1", BrsJson(SampleNested), PriceStr(<<"x">>))
SampleLines == {LineA, LineB, LineC, LineBadJson, LineBadPrice}

\* The record of one call of aggregate_and_upsert: how far it got, the raw
\* store it read, the result documents it was given, and the aggregate store
\* before and after it.
NoRun ==
    [stage |-> "none", raw |-> EmptyBag, result |-> {}, before |-> EmptyBag,
     after |-> EmptyBag]

\* An incremental aggregation: only the documents added since the last one.
SourceDocs_OnlyNew == raw (-) prev.raw

\* source_collection of aggregate_and_upsert in main: individualWins.
SourceDocs == raw
NoDump == [state |-> "none", data |-> EmptyBag]

Init ==
    /\ pc = "glob"
    /\ batch_size \in 1..MaxBatch
    /\ documents = <<>>
    /\ raw = EmptyBag
    /\ agg = EmptyBag
    /\ bulk_operations = <<>>
    /\ result_dump = NoDump
    /\ units = <<>>
    /\ calls = <<>>
    /\ nread = 0
    /\ runs = 1
    /\ cur = NoRun
    /\ prev = NoRun
    /\ error = "none"

\* ------------------------------------------------------------------- actions
\* main: the next file_path of the loop; parse_and_insert starts on it.
OpenFile ==
    /\ pc = "glob"
    /\ Len(units) < MaxUnits
    /\ pc' = "parse"
    /\ documents' = StartUnit([documents |-> documents, inserted |-> <<>>,
                              raised |-> FALSE]).documents
    /\ units' = Append(units, <<>>)
    /\ calls' = <<>>
    /\ UNCHANGED <<batch_size, raw, agg, bulk_operations, result_dump, nread,
                   runs, cur, prev, error>>

\* parse_and_insert: one iteration of the loop over the lines.
ReadLine(line) ==
    /\ pc = "parse"
    /\ nread < MaxTotal
    /\ LET ps == LineStep([documents |-> documents, inserted |-> calls,
                           raised |-> FALSE], line, batch_size)
       IN /\ documents' = ps.documents
          /\ calls' = ps.inserted
          /\ raw' = IF Len(ps.inserted) > Len(calls)
                    THEN InsertMany(raw, ps.inserted[Len(ps.inserted)])
                    ELSE raw
          /\ pc' = IF ps.raised THEN "crashed" ELSE "parse"
          /\ error' = IF ps.raised THEN "ValueError" ELSE error
    /\ units' = [units EXCEPT ![Len(units)] = Append(@, line)]
    /\ nread' = nread + 1
    /\ UNCHANGED <<batch_size, agg, bulk_operations, result_dump, runs, cur, prev>>

\* parse_and_insert: the lines are exhausted and the function returns.
EndOfFile ==
    /\ pc = "parse"
    /\ pc' = "glob"
    /\ UNCHANGED <<batch_size, documents, raw, agg, bulk_operations, result_dump,
                   units, calls, nread, runs, cur, prev, error>>

\* An aggregation that does not wait for parse_and_insert to return.
Aggregate_MidUnit ==
    /\ pc \in {"glob", "parse"}
    /\ LET result == AggregateResult(SourceDocs)
       IN \E ops \in Orderings({UpsertOp(doc) : doc \in result}) :
             /\ bulk_operations' = ops
             /\ pc' = IF ops # <<>> THEN "bulk_write" ELSE "dump"
             /\ cur' = [stage |-> IF ops # <<>> THEN "started" ELSE "complete",
                        raw |-> raw, result |-> result, before |-> agg,
                        after |-> agg]
    /\ UNCHANGED <<batch_size, documents, raw, agg, result_dump, units, calls,
                   nread, runs, prev, error>>

\* An aggregate_and_upsert that calls bulk_write whatever the list holds.
Aggregate_NoGuard ==
    /\ pc = "glob"
    /\ LET result == AggregateResult(SourceDocs)
       IN \E ops \in Orderings({UpsertOp(doc) : doc \in result}) :
             /\ bulk_operations' = ops
             /\ pc' = "bulk_write"
             /\ cur' = [stage |-> "started", raw |-> raw, result |-> result,
                        before |-> agg, after |-> agg]
    /\ UNCHANGED <<batch_size, documents, raw, agg, result_dump, units, calls,
                   nread, runs, prev, error>>

\* aggregate_and_upsert up to bulk_write: the aggregation is read and one
\* operation is built per result document, in the order the store returns them.
Aggregate ==
    /\ pc = "glob"
    /\ LET result == AggregateResult(SourceDocs)
       IN \E ops \in Orderings({UpsertOp(doc) : doc \in result}) :
             /\ bulk_operations' = ops
             /\ pc' = IF ops # <<>> THEN "bulk_write" ELSE "dump"
             /\ cur' = [stage |-> IF ops # <<>> THEN "started" ELSE "complete",
                        raw |-> raw, result |-> result, before |-> agg,
                        after |-> agg]
    /\ UNCHANGED <<batch_size, documents, raw, agg, result_dump, units, calls,
                   nread, runs, prev, error>>

\* bulk_write: the store applies the next operation.
BulkWriteOp ==
    /\ pc = "bulk_write"
    /\ bulk_operations # <<>>
    /\ agg' = ApplyUpsert(agg, Head(bulk_operations))
    /\ bulk_operations' = Tail(bulk_operations)
    /\ UNCHANGED <<pc, batch_size, documents, raw, result_dump, units, calls,
                   nread, runs, cur, prev, error>>

\* bulk_write returns: every operation was applied.
BulkWriteDone ==
    /\ pc = "bulk_write"
    /\ bulk_operations = <<>>
    /\ pc' = "dump"
    /\ cur' = [cur EXCEPT !.stage = "complete", !.after = agg]
    /\ UNCHANGED <<batch_size, documents, raw, agg, bulk_operations, result_dump,
                   units, calls, nread, runs, prev, error>>

\* bulk_write raises: the store failed, with the operations applied so far
\* in effect.
BulkWriteError ==
    /\ pc = "bulk_write"
    /\ pc' = "crashed"
    /\ error' = "BulkWriteError"
    /\ cur' = [cur EXCEPT !.stage = "failed", !.after = agg]
    /\ UNCHANGED <<batch_size, documents, raw, agg, bulk_operations, result_dump,
                   units, calls, nread, runs, prev>>

\* dump_to_json: the file is opened for writing and the documents are
\* serialized; a stored document carries the ObjectId the store gave it, which
\* json.dump cannot serialize.
DumpToJson ==
    /\ pc = "dump"
    /\ IF agg = EmptyBag
       THEN /\ result_dump' = [state |-> "written", data |-> EmptyBag]
            /\ pc' = "close"
            /\ error' = error
       ELSE /\ result_dump' = [state |-> "truncated", data |-> EmptyBag]
            /\ pc' = "crashed"
            /\ error' = "TypeError"
    /\ UNCHANGED <<batch_size, documents, raw, agg, bulk_operations, units, calls,
                   nread, runs, cur, prev>>

\* main: client.close()
Close ==
    /\ pc = "close"
    /\ pc' = "done"
    /\ UNCHANGED <<batch_size, documents, raw, agg, bulk_operations, result_dump,
                   units, calls, nread, runs, cur, prev, error>>

\* The program is started again, on the stores as the last run left them.
Rerun ==
    /\ pc \in {"done", "crashed"}
    /\ runs < MaxRuns
    /\ pc' = "glob"
    /\ documents' = <<>>
    /\ bulk_operations' = <<>>
    /\ units' = <<>>
    /\ calls' = <<>>
    /\ runs' = runs + 1
    /\ prev' = cur
    /\ cur' = NoRun
    /\ error' = "none"
    /\ UNCHANGED <<batch_size, raw, agg, result_dump, nread>>

Next ==
    \/ OpenFile
    \/ \E line \in SampleLines : ReadLine(line)
    \/ EndOfFile
    \/ Aggregate
    \/ BulkWriteOp
    \/ BulkWriteDone
    \/ BulkWriteError
    \/ DumpToJson
    \/ Close
    \/ Rerun

Spec == Init /\ [][Next]_vars

\* ------------------------------------------- aggregate_and_upsert on any store
\* Raw documents that differ from RawDoc("c1", "cr1", "ag1", "US", 60, p) in
\* at most one field of the key.
RawDoc(campaign, creative, adgroup, geo, time, price) ==
    [auctionId |-> "a1", campaignId |-> campaign, creativeId |-> creative,
     adgroupId |-> adgroup, userAgent |-> "ua", site |-> "url", geo |-> geo,
     exchange |-> "ex", price |-> price, time |-> time]

KeyDocs ==
    UNION {{RawDoc("c1", "cr1", "ag1", "US", 60, p),
            RawDoc("c2", "cr1", "ag1", "US", 60, p),
            RawDoc("c1", "cr2", "ag1", "US", 60, p),
            RawDoc("c1", "cr1", "ag2", "US", 60, p),
            RawDoc("c1", "cr1", "ag1", "DE", 60, p),
            RawDoc("c1", "cr1", "ag1", "US", 0, p)} : p \in {1, 3}}

\* The program starts on a raw store that earlier runs have filled, and finds
\* no input unit.
InitAgg ==
    /\ pc = "glob"
    /\ batch_size = 1
    /\ documents = <<>>
    /\ raw \in {InsertMany(EmptyBag, q) :
                  q \in UNION {[1..n -> KeyDocs] : n \in 0..MaxRawDocs}}
    /\ agg = EmptyBag
    /\ bulk_operations = <<>>
    /\ result_dump = NoDump
    /\ units = <<>>
    /\ calls = <<>>
    /\ nread = 0
    /\ runs = 1
    /\ cur = NoRun
    /\ prev = NoRun
    /\ error = "none"

NextAgg ==
    \/ Aggregate
    \/ BulkWriteOp
    \/ BulkWriteDone
    \/ BulkWriteError
    \/ DumpToJson
    \/ Close

SpecAgg == InitAgg /\ [][NextAgg]_vars

\* ------------------------------------------------ parse_and_insert on any line
\* The timestamp field holding the empty string.
EmptyTimestamp == [kind |-> "empty", sec |-> 0, usec |-> 0]

\* Nested documents: country and geo_criteria_id each absent, a value, or the
\* string "Others"; userAgent, url and exchange all absent or all there; the
\* timestamp absent, empty, malformed or well-formed.
AllNested ==
    {NestedDoc(IF there THEN "ua" ELSE Absent, IF there THEN "url" ELSE Absent,
               country, criteria, IF there THEN "ex" ELSE Absent, ts) :
        there \in BOOLEAN,
        country \in {Absent, "US", "Others"},
        criteria \in {Absent, "2840", "Others"},
        ts \in {NoTimestamp, EmptyTimestamp, BadTimestamp, IsoTimestamp(60, 5)}}

AllBrs == {BrsAbsent, BrsEmpty, BrsBad} \cup {BrsJson(n) : n \in AllNested}

\* winPrice absent, a number with or without the suffix, the suffix alone, or
\* text that is no number.
AllPrices ==
    {NoPrice, PriceStr(<<"1", "2", Suffix>>), PriceStr(<<"7">>),
     PriceStr(<<Suffix>>), PriceStr(<<"x", Suffix>>)}

\* Every line: not JSON, or an object with its four identifiers all there or
\* all absent.
AllLines ==
    {LineBadJson}
    \cup {Line(IF there THEN "a1" ELSE Absent, IF there THEN "c1" ELSE Absent,
               IF there THEN "cr1" ELSE Absent, IF there THEN "ag1" ELSE Absent,
               brs, price) :
            there \in BOOLEAN, brs \in AllBrs, price \in AllPrices}

\* parse_and_insert on units whose first line is any line.
NextNorm ==
    \/ OpenFile
    \/ \E line \in AllLines : nread = 0 /\ ReadLine(line)
    \/ EndOfFile

SpecNorm == Init /\ [][NextNorm]_vars

\* --------------------------------------- parse_and_insert on lines that fail
TimedNested == NestedDoc("ua", "url", "US", Absent, "ex", BadTimestamp)
LineBadTime == Line("a5", "c1", "cr1", "ag1", BrsJson(TimedNested), PriceStr(<<"1", Suffix>>))
LineBadNested == Line("a6", "c1", "cr1", "ag1", BrsBad, PriceStr(<<"1", Suffix>>))
LineEmptyNested == Line("a7", "c1", "cr1", "ag1", BrsEmpty, PriceStr(<<"1", Suffix>>))
LineBadNestedBadPrice == Line("a8", "c1", "cr1", "ag1", BrsBad, PriceStr(<<"x">>))

ErrorLines ==
    {LineA, LineBadJson, LineBadPrice, LineBadTime, LineBadNested, LineEmptyNested,
     LineBadNestedBadPrice}

\* The ingestion of one run, on units of these lines.
NextErr ==
    \/ OpenFile
    \/ \E line \in ErrorLines : ReadLine(line)
    \/ EndOfFile

SpecErr == Init /\ [][NextErr]_vars

\* ------------------------------------------------------------------- claims
\* Two documents have the same composite key.
SameKey(a, b) ==
    /\ a.campaignId = b.campaignId
    /\ a.creativeId = b.creativeId
    /\ a.adgroupId = b.adgroupId
    /\ a.geo = b.geo
    /\ a.time = b.time

\* The lines of a unit that yield a document.
IsValidLine(line) == Normalize(line).status = "ok"
ValidLines(lines) == SelectSeq(lines, IsValidLine)

\* The unit parse_and_insert was last called on.
LastUnit == units[Len(units)]

\* parse_and_insert has returned from the last unit.
UnitConsumed == pc = "glob" /\ units # <<>>

RECURSIVE SumLen(_)
SumLen(batches) ==
    IF batches = <<>> THEN 0 ELSE Len(Head(batches)) + SumLen(Tail(batches))

\* The documents of a collection with the key of d, counted with multiplicity.
CountKey(coll, d) ==
    BagCardinality([x \in {y \in BagToSet(coll) : SameKey(y, d)} |-> coll[x]])

RECURSIVE SumPrice(_)
SumPrice(coll) ==
    IF coll = EmptyBag THEN 0
    ELSE LET d == CHOOSE x \in BagToSet(coll) : TRUE
         IN coll[d] * d.price + SumPrice([x \in BagToSet(coll) \ {d} |-> coll[x]])

\* The sub-collection of the documents with the key of d.
WithKey(coll, d) == [x \in {y \in BagToSet(coll) : SameKey(y, d)} |-> coll[x]]

\* An aggregate document b holds the sum, minimum, maximum and count of the
\* prices of the documents of coll with its key.
TotalsOf(b, coll) ==
    LET same == WithKey(coll, b)
    IN /\ same # EmptyBag
       /\ b.totalCount = BagCardinality(same)
       /\ b.totalPrice = SumPrice(same)
       /\ \E d \in BagToSet(same) : d.price = b.minPrice
       /\ \A d \in BagToSet(same) : d.price >= b.minPrice
       /\ \E d \in BagToSet(same) : d.price = b.maxPrice
       /\ \A d \in BagToSet(same) : d.price <= b.maxPrice

\* C1: once parse_and_insert has consumed a unit with N valid lines under
\* batch size B, the raw store has received N documents in ceil(N/B)
\* insert_many calls, the last carrying N mod B documents (B when B divides N).
C1_BatchingCompleteness ==
    UnitConsumed =>
        LET N == Len(ValidLines(LastUnit))
            B == batch_size
        IN /\ SumLen(calls) = N
           /\ Len(calls) = (N + B - 1) \div B
           /\ N > 0 => Len(calls[Len(calls)]) = IF N % B = 0 THEN B ELSE N % B

\* C2: a second aggregate_and_upsert on an unchanged raw store leaves the
\* aggregate store as the first left it, with no composite key twice.
C2_MergeIdempotent ==
    (cur.stage = "complete" /\ prev.stage = "complete" /\ cur.raw = prev.raw) =>
        /\ agg = prev.after
        /\ \A d \in BagToSet(agg) : CountKey(agg, d) = 1

C2_Witness ==
    /\ cur.stage = "complete"
    /\ prev.stage = "complete"
    /\ cur.raw = prev.raw
    /\ Cardinality(BagToSet(agg)) >= 2

\* C3: when the aggregate store held a record for key k with stale values and
\* the merge's buckets contain k, the store then holds exactly one record for
\* k, with the bucket's four values; at no time does it hold two records of
\* one key.
C3_UpsertNotDuplicate ==
    /\ \A d \in BagToSet(agg) : CountKey(agg, d) = 1
    /\ cur.stage = "complete" =>
          \A old \in BagToSet(cur.before) : \A fresh \in cur.result :
              SameKey(old, fresh) =>
                  /\ CountKey(agg, fresh) = 1
                  /\ \A d \in BagToSet(agg) :
                        SameKey(d, fresh) =>
                            /\ d.totalPrice = fresh.totalPrice
                            /\ d.minPrice = fresh.minPrice
                            /\ d.maxPrice = fresh.maxPrice
                            /\ d.totalCount = fresh.totalCount

C3_Witness ==
    /\ cur.stage = "complete"
    /\ \E old \in BagToSet(cur.before) : \E fresh \in cur.result :
          /\ SameKey(old, fresh)
          /\ old.totalPrice # fresh.totalPrice
          /\ old.maxPrice # fresh.maxPrice
          /\ old.totalCount # fresh.totalCount

\* C4: after the raw store has grown and aggregate_and_upsert has run again,
\* every composite key of the raw store has one aggregate record, holding the
\* sum, minimum, maximum and count of price over all raw records of that key.
C4_RerunAfterGrowth ==
    cur.stage = "complete" =>
        \A r \in BagToSet(raw) :
            /\ CountKey(agg, r) = 1
            /\ \A b \in BagToSet(agg) : SameKey(b, r) => TotalsOf(b, raw)

C4_Witness ==
    /\ cur.stage = "complete"
    /\ prev.stage = "complete"
    /\ \E r \in BagToSet(raw) :
          /\ CountKey(prev.raw, r) >= 1
          /\ CountKey(raw, r) > CountKey(prev.raw, r)

\* C5: the Aggregator emits exactly one bucket per distinct 5-tuple, so that
\* records differing in any one key field fall into different buckets, and
\* each bucket holds the sum, minimum, maximum and number of the prices of
\* exactly the records with its key.
C5_GroupByFiveTuple ==
    cur.stage # "none" =>
        /\ \A r \in BagToSet(cur.raw) :
              Cardinality({b \in cur.result : SameKey(b, r)}) = 1
        /\ \A b \in cur.result : TotalsOf(b, cur.raw)
        /\ \A b1, b2 \in cur.result : SameKey(b1, b2) => b1 = b2
        /\ Cardinality(cur.result)
              = Cardinality({<<r.campaignId, r.creativeId, r.adgroupId, r.geo, r.time>> :
                              r \in BagToSet(cur.raw)})

C5_Witness ==
    /\ cur.stage # "none"
    /\ \E r1, r2, r3 \in BagToSet(cur.raw) :
          /\ SameKey(r1, r2)
          /\ r1.price # r2.price
          /\ r3.time # r1.time
          /\ SameKey([r3 EXCEPT !.time = r1.time], r1)

\* The aggregate store a first run of the program leaves, from empty stores,
\* on the units us.
PipelineAgg(us, size) ==
    LET ps == IngestUnits(ParseStart, us, size)
    IN AggregateAndUpsert(InsertBatches(EmptyBag, ps.inserted), EmptyBag)

\* The orders the elements of a sequence may be put in.
Reorderings(q) == {[j \in 1..Len(q) |-> q[f[j]]] : f \in Permutations(1..Len(q))}

IsJsonLine(line) == line.json

\* C6: a line that is not valid JSON does not abort the run and adds nothing
\* to the raw store, and the batches written for the other lines are those
\* written for the unit without the malformed lines.
C6_SkipMalformed ==
    units # <<>> =>
        LET ref == ParseAndInsert(ParseStart, SelectSeq(LastUnit, IsJsonLine), batch_size)
        IN (\A i \in 1..Len(LastUnit) : LastUnit[i].json => IsValidLine(LastUnit[i])) =>
              /\ error # "ValueError"
              /\ calls = ref.inserted
              /\ pc = "parse" => documents = ref.documents

C6_Witness ==
    /\ units # <<>>
    /\ Len(LastUnit) = 3
    /\ IsValidLine(LastUnit[1])
    /\ ~LastUnit[2].json
    /\ IsValidLine(LastUnit[3])
    /\ batch_size = 2
    /\ Len(calls) = 1

\* C7: for every permutation of the lines of an input unit, ingesting the
\* permuted unit and aggregating yields the aggregate store that the original
\* unit yields.
C7_LineOrderInsensitive ==
    (runs = 1 /\ cur.stage = "complete") =>
        \A i \in 1..Len(units) : \A p \in Reorderings(units[i]) :
            PipelineAgg([units EXCEPT ![i] = p], batch_size) = agg

\* C8: for every permutation of the input units, ingesting them in that order
\* and aggregating yields the same aggregate store.
C8_UnitOrderInsensitive ==
    (runs = 1 /\ cur.stage = "complete") =>
        \A us \in Reorderings(units) : PipelineAgg(us, batch_size) = agg

C8_Witness ==
    /\ runs = 1
    /\ cur.stage = "complete"
    /\ Len(units) = 2
    /\ units[1] # units[2]
    /\ ValidLines(units[1]) # <<>>
    /\ ValidLines(units[2]) # <<>>
    /\ batch_size = 2
    /\ agg # EmptyBag

\* C9: after a bulk upsert that took effect only in part, a complete run of
\* aggregate_and_upsert over the same raw store leaves the aggregate store as
\* one uninterrupted run would have left it.
C9_RerunAfterPartialMerge ==
    (cur.stage = "complete" /\ prev.stage = "failed" /\ cur.raw = prev.raw) =>
        agg = AggregateAndUpsert(prev.raw, prev.before)

C9_Witness ==
    /\ cur.stage = "complete"
    /\ prev.stage = "failed"
    /\ cur.raw = prev.raw
    /\ prev.after # prev.before
    /\ prev.after # agg

\* C10: the stages run in sequence: a unit begins only when no unit is being
\* read and before the aggregation; the raw store is written only while a unit
\* is being read, before the aggregation read; the aggregation read happens
\* only between units; the aggregate store is written only by the bulk upsert
\* after the read; the export happens only after the bulk upsert is complete.
C10_StagesInSequence ==
    [][/\ Len(units') > Len(units) => pc = "glob" /\ cur.stage = "none"
       /\ raw' # raw => pc = "parse" /\ cur.stage = "none"
       /\ (cur.stage = "none" /\ cur'.stage # "none") => pc = "glob"
       /\ agg' # agg => pc = "bulk_write" /\ cur.stage = "started"
       /\ result_dump' # result_dump =>
             pc = "dump" /\ cur.stage = "complete" /\ bulk_operations = <<>>]_vars

C10_Witness ==
    /\ result_dump.state # "none"
    /\ Len(units) = 2
    /\ ValidLines(units[1]) # <<>>
    /\ ValidLines(units[2]) # <<>>
    /\ BagCardinality(raw) >= 2
    /\ agg # EmptyBag

\* C11: when the aggregation yields no bucket, bulk_write is not called, not
\* even with an empty list, and the aggregate store is left as it was.
C11_EmptyResultNoWrite ==
    (cur.stage # "none" /\ cur.result = {}) =>
        /\ pc # "bulk_write"
        /\ cur.stage = "complete"
        /\ error # "BulkWriteError"
        /\ agg = cur.before

C11_Witness ==
    /\ cur.stage = "complete"
    /\ cur.result = {}
    /\ raw = EmptyBag
    /\ units # <<>>
    /\ pc = "dump"

\* The one line read, and the document it gave: the last of the buffer, or of
\* the batch just written.
OneLineRead == units # <<>> /\ Len(LastUnit) = 1
TheLine == LastUnit[1]
Produced == documents # <<>> \/ calls # <<>>
TheDocument ==
    IF documents # <<>> THEN documents[Len(documents)]
    ELSE calls[Len(calls)][Len(calls[Len(calls)])]

\* The nested document of a line (the empty object when the field is absent).
NestedOf(line) == line.bidRequestString.doc

\* C12 as stated: geo is device.geo.country whenever that is present, else
\* geo_criteria_id when that is present, else "Others".
C12_GeoResolution ==
    (OneLineRead /\ Produced) =>
        LET n == NestedOf(TheLine)
        IN /\ n.country # Absent => TheDocument.geo = n.country
           /\ (n.country = Absent /\ n.criteria # Absent) => TheDocument.geo = n.criteria
           /\ (n.country = Absent /\ n.criteria = Absent) => TheDocument.geo = "Others"

\* C12 amended: geo is device.geo.country when that is present and is not the
\* string "Others"; when it is absent or is "Others", geo is geo_criteria_id
\* if present, else "Others".
C12_GeoResolutionAmended ==
    (OneLineRead /\ Produced) =>
        LET n == NestedOf(TheLine)
            first == n.country \notin {Absent, "Others"}
        IN /\ first => TheDocument.geo = n.country
           /\ (~first /\ n.criteria # Absent) => TheDocument.geo = n.criteria
           /\ (~first /\ n.criteria = Absent) => TheDocument.geo = "Others"

C12_Witness ==
    /\ OneLineRead
    /\ Produced
    /\ NestedOf(TheLine).country = "Others"
    /\ NestedOf(TheLine).criteria = "2840"
    /\ TheDocument.geo = "2840"

\* A document has the ten fields, each with a value.
TenFields(d) ==
    /\ DOMAIN d = {"auctionId", "campaignId", "creativeId", "adgroupId", "userAgent",
                   "site", "geo", "exchange", "price", "time"}
    /\ \A f \in DOMAIN d \ {"price", "time"} : d[f] # Absent
    /\ d.price \in Nat
    /\ d.time \in Nat

IsSuffix(c) == c = Suffix
IsNotSuffix(c) == c # Suffix

\* The winPrice of a line is absent or, without its suffixes, a number.
PriceParses(line) ==
    ~line.winPrice.has
    \/ LET t == SelectSeq(line.winPrice.s, IsNotSuffix)
       IN t # <<>> /\ \A i \in 1..Len(t) : t[i] \in Digits

C14_AbsentOrEmptyNested ==
    (/\ OneLineRead
     /\ TheLine.json
     /\ TheLine.bidRequestString.kind \in {"absent", "empty"}
     /\ PriceParses(TheLine))
    => /\ Produced
       /\ TheDocument.userAgent = "Others"
       /\ TheDocument.site = "Others"
       /\ TheDocument.exchange = "Others"
       /\ TheDocument.geo = "Others"
       /\ TheDocument.time = 0

\* C15: ingesting again a unit that was already ingested, on the raw store as
\* it is, leaves every record the first ingestion wrote twice in the raw
\* store, and the aggregation then gives each key twice the totalCount and
\* totalPrice of a single ingestion, with the same minPrice and maxPrice.
C15_ReingestDuplicates ==
    (runs = 1 /\ cur.stage = "complete" /\ Len(units) = 2 /\ units[1] = units[2]) =>
        LET once == InsertBatches(EmptyBag, calls)
            single == PipelineAgg(<<units[1]>>, batch_size)
        IN /\ BagToSet(raw) = BagToSet(once)
           /\ \A d \in BagToSet(once) : CopiesIn(d, raw) = 2 * CopiesIn(d, once)
           /\ BagCardinality(agg) = BagCardinality(single)
           /\ \A o \in BagToSet(single) :
                 \E b \in BagToSet(agg) :
                     /\ SameKey(b, o)
                     /\ b.totalCount = 2 * o.totalCount
                     /\ b.totalPrice = 2 * o.totalPrice
                     /\ b.minPrice = o.minPrice
                     /\ b.maxPrice = o.maxPrice

C15_Witness ==
    /\ runs = 1
    /\ cur.stage = "complete"
    /\ Len(units) = 2
    /\ units[1] = units[2]
    /\ raw # EmptyBag
    /\ \E b \in BagToSet(agg) : b.totalCount = 2

\* A line that is a JSON object whose price or whose timestamp does not parse.
BadField(line) ==
    /\ line.json
    /\ \/ ~PriceParses(line)
       \/ (line.bidRequestString.kind = "json" /\ NestedOf(line).timestamp.kind = "bad")

\* parse_and_insert left by the exception of the last line read: that line
\* ended the unit, the batches written before it stay, and what was buffered
\* is not written.
AbortedAtLastLine ==
    LET before == ParseAndInsert(ParseStart, SubSeq(LastUnit, 1, Len(LastUnit) - 1),
                                 batch_size)
    IN /\ pc = "crashed"
       /\ error = "ValueError"
       /\ calls = before.inserted
       /\ documents = before.documents
       /\ Len(units) = 1 => raw = InsertBatches(EmptyBag, calls)

DocsOf(lines) ==
    LET v == ValidLines(lines) IN [i \in 1..Len(v) |-> Normalize(v[i]).doc]

RECURSIVE Flatten(_)
Flatten(batches) ==
    IF batches = <<>> THEN <<>> ELSE Head(batches) \o Flatten(Tail(batches))

\* C17: the buffer is flushed exactly when it reaches batch_size: every batch
\* given to insert_many has batch_size documents, none is empty, the buffer
\* holds fewer than batch_size documents at every line boundary, and the
\* batches followed by the buffer are the documents of the lines in order.
C17_ThresholdFlush ==
    /\ Len(documents) < batch_size
    /\ \A i \in 1..Len(calls) : calls[i] # <<>> /\ Len(calls[i]) = batch_size
    /\ units # <<>> => Flatten(calls) \o documents = DocsOf(LastUnit)

C17_Witness ==
    /\ pc = "parse"
    /\ batch_size = 2
    /\ Len(calls) = 1
    /\ Len(documents) = 1
    /\ calls[1][1] # calls[1][2]

NestedBad(line) == line.json /\ line.bidRequestString.kind \in {"empty", "bad"}
Clean(line) ==
    /\ line.json
    /\ line.bidRequestString.kind \in {"absent", "json"}
    /\ ~BadField(line)
IsNotNestedBad(line) == ~NestedBad(line)
AsMalformed(line) == IF NestedBad(line) THEN LineBadJson ELSE line

\* C19: a line whose envelope is valid and whose bidRequestString is not valid
\* JSON is handled as a malformed envelope is: no exception, nothing added to
\* the buffer, nothing counted toward the batch: the batches and the buffer
\* are those of the unit without such lines, and of the unit with a malformed
\* line in the place of each.
C19_BadNestedSkipped ==
    units # <<>> =>
        LET without == ParseAndInsert(ParseStart, SelectSeq(LastUnit, IsNotNestedBad),
                                      batch_size)
            malformed == ParseAndInsert(ParseStart,
                                        [i \in 1..Len(LastUnit) |-> AsMalformed(LastUnit[i])],
                                        batch_size)
        IN (\A i \in 1..Len(LastUnit) :
                Clean(LastUnit[i]) \/ NestedBad(LastUnit[i]) \/ ~LastUnit[i].json) =>
              /\ error = "none"
              /\ pc # "crashed"
              /\ calls = without.inserted
              /\ documents = without.documents
              /\ calls = malformed.inserted
              /\ documents = malformed.documents

C19_Witness ==
    /\ units # <<>>
    /\ Len(LastUnit) = 3
    /\ LastUnit[1] = LineA
    /\ NestedBad(LastUnit[2])
    /\ ~PriceParses(LastUnit[2])
    /\ LastUnit[3] = LineA
    /\ batch_size = 2
    /\ Len(calls) = 1

====
